---- MODULE Spec2Model ----
(***************************************************************************)
(* jss::ticket_map<Ticket, Value> (src/ticket_map.hpp, lines 1-479): a map  *)
(* from automatically assigned, increasing tickets to values, stored in a   *)
(* vector of (ticket, optional<Value>) slots.  Erased slots stay in the     *)
(* vector as empty optionals until a compaction removes them.               *)
(*                                                                          *)
(* Two ticket_map objects, 1 and 2, are modelled so that swap, copy and     *)
(* move can be exercised.  The Ticket type is an integral type whose        *)
(* default value is 0 and whose numeric_limits max() is MaxTicket; in       *)
(* SpecTypes object 2 has one of the custom ticket types of the tests.      *)
(***************************************************************************)
EXTENDS Integers, Sequences, FiniteSets, TLC

\* ---------------------------------------------------------------- bounds
\* numeric_limits<Ticket>::max() of the modelled integral ticket type
MaxTicket == 3
\* the values that are stored are the first and the last of 1..MaxVal
MaxVal == 2
\* longest range handed to insert(first, last)
MaxRange == 4
\* number of calls in a run of the two-container program
MaxCalls == 4
\* reserve(count) is called with count in 0..MaxReserve
MaxReserve == MaxTicket + 2

\* MyTicket() : i(100) and MyTicket::operator++(int): i += 10
MyTicketDefault == 100
MyTicketStep == 10

Maps == {1, 2}
Tickets == 0 .. MaxTicket
Values == {1, MaxVal}
\* std::nullopt: the empty optional of a slot
None == 0
\* the ranges handed to insert(first, last): one of each length, the first
\* and the last value in turn
Ranges ==
    {[i \in 1 .. n |-> IF i % 2 = 1 THEN 1 ELSE MaxVal] : n \in 0 .. MaxRange}

Other(c) == 3 - c

VARIABLES
    m,          \* m[c]: the members of ticket_map object c, plus the
                \* capacity of its vector
    highest,    \* highest[c]: the greatest ticket object c has returned so
                \* far, -1 before the first
    taken,      \* taken[c]: the number of emplace steps on object c that
                \* did not end in overflow_error
    abs,        \* abs[c][t]: the value inserted under t and not removed
                \* since, or None (the map the caller expects to hold)
    exhausted,  \* exhausted[c]: object c has handed out the last ticket
    last,       \* the last call and what it returned
    calls,      \* the number of calls the two-container program has made
    ticketType, \* ticketType[c]: the Ticket template argument of object c
    held        \* the iterator the caller holds: its members map and iter,
                \* the object whose vector now holds the slot iter points
                \* into (0 when that storage is gone or iter is no longer
                \* valid by the rules of std::vector), and whether a call
                \* documented to invalidate iterators was made since

vars == <<m, highest, taken, abs, exhausted, last, calls, ticketType, held>>

\* ------------------------------------------------------- the container
\* ticket_map(): nextId(), filledItems(0), overflow = false, empty vector
EmptyMap ==
    [overflow |-> FALSE, nextId |-> 0, data |-> <<>>, filledItems |-> 0,
     cap |-> 0]

Slot(t, v) == [ticket |-> t, value |-> v]

Filled(s) == s.value # None

\* data.end() as a position: one past the last slot (positions are 1-based)
End(r) == Len(r.data) + 1

size(r) == r.filledItems

empty(r) == size(r) = 0

\* mutant: the emptied slots are counted as free
insert_capacity_by_size(r) == r.cap - size(r)

\* insert_capacity(): data.capacity() - data.size()
insert_capacity(r) == r.cap - Len(r.data)

\* mutant: the threshold is a quarter of the slots
needs_compaction_quarter(r) == r.filledItems < (Len(r.data) \div 4)

needs_compaction(r) == r.filledItems < (Len(r.data) \div 2)

\* mutant: the vector is cut to its first filledItems slots
compact_truncates(r) == [r EXCEPT !.data = SubSeq(r.data, 1, r.filledItems)]

\* compact(): data.erase(remove_if(..., no value), data.end())
compact(r) == [r EXCEPT !.data = SelectSeq(r.data, Filled)]

\* mutant: without the compaction when count <= size()
reserve_without_compaction(r, count) ==
    IF count > size(r)
    THEN [r EXCEPT !.data = SelectSeq(r.data, Filled), !.cap = count]
    ELSE r

\* mutant: the new vector has room for one slot less
reserve_one_short(r, count) ==
    IF count > size(r)
    THEN [r EXCEPT !.data = SelectSeq(r.data, Filled), !.cap = count - 1]
    ELSE compact(r)

\* reserve(count): a new vector of capacity count that receives the filled
\* slots, or a compaction when count <= size()
reserve(r, count) ==
    IF count > size(r)
    THEN [r EXCEPT !.data = SelectSeq(r.data, Filled), !.cap = count]
    ELSE compact(r)

\* mutant: empty slots are not skipped
next_valid_no_skip(r, iter) == iter

RECURSIVE next_valid(_, _)
next_valid(r, iter) ==
    IF iter # End(r) /\ ~Filled(r.data[iter])
    THEN next_valid(r, iter + 1)
    ELSE iter

\* std::lower_bound over the slots with comp(slot, ticket) = slot.first <
\* ticket: the bisection of [first, first + count)
RECURSIVE lower_bound(_, _, _, _)
lower_bound(data, first, count, ticket) ==
    IF count = 0 THEN first
    ELSE LET step == count \div 2
             it == first + step
         IN  IF data[it].ticket < ticket
             THEN lower_bound(data, it + 1, count - (step + 1), ticket)
             ELSE lower_bound(data, first, step, ticket)

\* mutant: the slot found is not tested for being empty
lookup_finds_empty(r, ticket) ==
    LET pos == lower_bound(r.data, 1, Len(r.data), ticket)
    IN  IF pos = End(r) \/ r.data[pos].ticket # ticket
        THEN End(r)
        ELSE pos

lookup(r, ticket) ==
    LET pos == lower_bound(r.data, 1, Len(r.data), ticket)
    IN  IF pos = End(r) \/ r.data[pos].ticket # ticket
           \/ ~Filled(r.data[pos])
        THEN End(r)
        ELSE pos

\* mutant: the slot found is not tested for holding a value
index_of_any_slot(r, ticket) ==
    LET iter == lookup_finds_empty(r, ticket)
    IN  IF iter = End(r)
        THEN [ok |-> FALSE, value |-> None]
        ELSE [ok |-> TRUE, value |-> r.data[iter].value]

\* index(data, ticket): the value referred to, or std::out_of_range (ok is
\* FALSE)
index(r, ticket) ==
    LET iter == lookup(r, ticket)
    IN  IF iter = End(r)
        THEN [ok |-> FALSE, value |-> None]
        ELSE [ok |-> TRUE, value |-> r.data[iter].value]

\* mutant: overflow is flagged when the counter reaches max(), one ticket
\* early
increment_flags_early(value, overflow) ==
    IF value + 1 >= MaxTicket
    THEN [id |-> value, value |-> value, overflow |-> TRUE]
    ELSE [id |-> value, value |-> value + 1, overflow |-> overflow]

\* increment_with_overflow_check for an integral ticket: the ticket handed
\* out, the new counter and the new overflow flag
increment_with_overflow_check(value, overflow) ==
    IF value = MaxTicket
    THEN [id |-> value, value |-> value, overflow |-> TRUE]
    ELSE [id |-> value, value |-> value + 1, overflow |-> overflow]

\* the Ticket template arguments: an integral type with max() = MaxTicket,
\* SmallTicket (an unsigned counter of the same width, which wraps) and
\* MyTicket (an int counter from 100 in steps of 10)
TicketTypes == {"integral", "SmallTicket", "MyTicket"}

\* Ticket(): the default-constructed ticket
Default(T) == IF T = "MyTicket" THEN MyTicketDefault ELSE 0

\* the counter after value++
PostIncrement(T, value) ==
    CASE T = "SmallTicket" -> (value + 1) % (MaxTicket + 1)
      [] T = "MyTicket" -> value + MyTicketStep
      [] OTHER -> value + 1

\* mutant: the advanced counter is handed out (++value for value++)
increment_generic_returns_advanced(T, value, overflow) ==
    LET next == PostIncrement(T, value)
    IN  [id |-> next, value |-> next,
         overflow |-> overflow \/ next < value \/ next = value]

\* mutant: a wrapped counter is not noticed
increment_generic_unchecked(T, value, overflow) ==
    [id |-> value, value |-> PostIncrement(T, value), overflow |-> overflow]

\* increment_with_overflow_check for a non-integral ticket: auto id =
\* value++; overflow when the counter did not become greater
increment_with_overflow_check_generic(T, value, overflow) ==
    LET next == PostIncrement(T, value)
    IN  [id |-> value, value |-> next,
         overflow |-> overflow \/ next < value \/ next = value]

\* std::vector::insert at end(): a full vector reallocates first
VectorGrow(cap) == IF cap = 0 THEN 1 ELSE 2 * cap

vector_insert_end(r, s) ==
    [r EXCEPT !.data = Append(r.data, s),
              !.cap = IF Len(r.data) = r.cap THEN VectorGrow(r.cap)
                      ELSE r.cap]

\* mutant: filledItems is incremented before the value is constructed
emplace_with_counts_first(r, v, inc) ==
    LET r1 == [r EXCEPT !.nextId = inc.value, !.overflow = inc.overflow]
        r2 == IF insert_capacity(r1) = 0
              THEN reserve(r1, size(r1) * 2)
              ELSE r1
        r3 == vector_insert_end(r2, Slot(inc.id, None))
        r4 == [r3 EXCEPT !.filledItems = r3.filledItems + 1]
    IN  IF v = None
        THEN [ok |-> FALSE, took |-> TRUE, id |-> inc.id, r |-> r4]
        ELSE [ok |-> TRUE, took |-> TRUE, id |-> inc.id,
              r |-> [r4 EXCEPT !.data[Len(r4.data)].value = v]]

\* mutant: a full vector makes room for one more slot only
emplace_with_grows_by_one(r, v, inc) ==
    LET r1 == [r EXCEPT !.nextId = inc.value, !.overflow = inc.overflow]
        r2 == IF insert_capacity(r1) = 0
              THEN reserve(r1, size(r1) + 1)
              ELSE r1
        r3 == vector_insert_end(r2, Slot(inc.id, None))
    IN  IF v = None
        THEN [ok |-> FALSE, took |-> TRUE, id |-> inc.id, r |-> r3]
        ELSE [ok |-> TRUE, took |-> TRUE, id |-> inc.id,
              r |-> [r3 EXCEPT !.data[Len(r3.data)].value = v,
                               !.filledItems = r3.filledItems + 1]]

\* emplace(args...) from line 239 on, inc being the result of
\* increment_with_overflow_check: v is the constructed value, None when
\* the value's constructor throws.  The result says whether a ticket was
\* returned.
emplace_with(r, v, inc) ==
    LET r1 == [r EXCEPT !.nextId = inc.value, !.overflow = inc.overflow]
        r2 == IF insert_capacity(r1) = 0
              THEN reserve(r1, size(r1) * 2)
              ELSE r1
        r3 == vector_insert_end(r2, Slot(inc.id, None))
    IN  IF v = None
        THEN [ok |-> FALSE, took |-> TRUE, id |-> inc.id, r |-> r3]
        ELSE [ok |-> TRUE, took |-> TRUE, id |-> inc.id,
              r |-> [r3 EXCEPT !.data[Len(r3.data)].value = v,
                               !.filledItems = r3.filledItems + 1]]

\* emplace(args...) of ticket_map<Ticket, Value> with an integral Ticket
emplace(r, v) ==
    IF r.overflow
    THEN [ok |-> FALSE, took |-> FALSE, id |-> 0, r |-> r]
    ELSE emplace_with(r, v,
                      increment_with_overflow_check(r.nextId, r.overflow))

\* emplace(args...) of ticket_map<T, Value> with a non-integral Ticket T
emplace_generic(T, r, v) ==
    IF r.overflow
    THEN [ok |-> FALSE, took |-> FALSE, id |-> 0, r |-> r]
    ELSE emplace_with(r, v,
             increment_with_overflow_check_generic(T, r.nextId, r.overflow))

\* mutant: filledItems is not decremented
erase_entry_keeps_count(r, iter) ==
    IF iter # End(r)
    THEN LET r1 == [r EXCEPT !.data[iter].value = None]
             it1 == next_valid(r1, iter)
         IN  IF needs_compaction(r1)
             THEN LET hasTicket == it1 # End(r1)
                      r3 == compact(r1)
                  IN  [r |-> r3,
                       pos |-> IF hasTicket
                               THEN lookup(r3, r1.data[it1].ticket)
                               ELSE End(r3)]
             ELSE [r |-> r1, pos |-> it1]
    ELSE [r |-> r, pos |-> iter]

\* mutant: after a compaction the position found before it is returned
erase_entry_stale_position(r, iter) ==
    IF iter # End(r)
    THEN LET r1 == [r EXCEPT !.data[iter].value = None]
             it1 == next_valid(r1, iter)
             r2 == [r1 EXCEPT !.filledItems = r1.filledItems - 1]
         IN  IF needs_compaction(r2)
             THEN [r |-> compact(r2), pos |-> it1]
             ELSE [r |-> r2, pos |-> it1]
    ELSE [r |-> r, pos |-> iter]

\* mutant: erase_entry(end()) compacts
erase_entry_end_compacts(r, iter) ==
    IF iter # End(r)
    THEN LET r1 == [r EXCEPT !.data[iter].value = None]
             it1 == next_valid(r1, iter)
             r2 == [r1 EXCEPT !.filledItems = r1.filledItems - 1]
         IN  IF needs_compaction(r2)
             THEN LET hasTicket == it1 # End(r2)
                      r3 == compact(r2)
                  IN  [r |-> r3,
                       pos |-> IF hasTicket
                               THEN lookup(r3, r2.data[it1].ticket)
                               ELSE End(r3)]
             ELSE [r |-> r2, pos |-> it1]
    ELSE [r |-> compact(r), pos |-> End(compact(r))]

\* mutant: the erase never compacts
erase_entry_no_compaction(r, iter) ==
    IF iter # End(r)
    THEN LET r1 == [r EXCEPT !.data[iter].value = None]
             it1 == next_valid(r1, iter)
             r2 == [r1 EXCEPT !.filledItems = r1.filledItems - 1]
         IN  [r |-> r2, pos |-> it1]
    ELSE [r |-> r, pos |-> iter]

\* erase_entry(iter): the container afterwards and the returned position
erase_entry(r, iter) ==
    IF iter # End(r)
    THEN LET r1 == [r EXCEPT !.data[iter].value = None]
             it1 == next_valid(r1, iter)
             r2 == [r1 EXCEPT !.filledItems = r1.filledItems - 1]
         IN  IF needs_compaction(r2)
             THEN LET hasTicket == it1 # End(r2)
                      r3 == compact(r2)
                  IN  [r |-> r3,
                       pos |-> IF hasTicket
                               THEN lookup(r3, r2.data[it1].ticket)
                               ELSE End(r3)]
             ELSE [r |-> r2, pos |-> it1]
    ELSE [r |-> r, pos |-> iter]

\* erase(const Ticket &ticket): erase_entry(lookup(data, ticket))
erase_ticket(r, ticket) == erase_entry(r, lookup(r, ticket))

\* mutant: the first live entry is erased, whatever the cursor
erase_cursor_first(r, pos) == erase_entry(r, next_valid(r, 1))

\* erase(const_iterator pos): erase_entry(data.begin() + (pos.iter -
\* data.begin())), data.begin() being position 1
erase_cursor(r, pos) == erase_entry(r, 1 + (pos - 1))

\* mutant: clear() also resets the ticket counter
clear_resets_ticket(r) ==
    [r EXCEPT !.data = <<>>, !.filledItems = 0, !.nextId = 0,
              !.overflow = FALSE]

\* mutant: filledItems is not reset
clear_keeps_count(r) == [r EXCEPT !.data = <<>>]

\* clear(): data.clear() keeps the capacity
clear(r) == [r EXCEPT !.data = <<>>, !.filledItems = 0]

find(r, ticket) == lookup(r, ticket)

\* mutant: the slots with the ticket are counted, filled or not
count_slots(r, ticket) ==
    Cardinality({i \in 1 .. Len(r.data) : r.data[i].ticket = ticket})

\* count(ticket): (lookup(data, ticket) == data.end()) ? 0 : 1
count(r, ticket) == IF lookup(r, ticket) = End(r) THEN 0 ELSE 1

\* mutant: data.begin() as it is
begin_first_slot(r) == 1

\* begin(): next_valid(data.begin())
begin(r) == next_valid(r, 1)

\* iterator_impl::operator++: iter = map->next_valid(++iter)
increment(r, iter) == next_valid(r, iter + 1)

\* for(auto &entry : map): the positions visited from begin() until end()
RECURSIVE WalkFrom(_, _)
WalkFrom(r, iter) ==
    IF iter >= End(r) THEN <<>>
    ELSE <<iter>> \o WalkFrom(r, increment(r, iter))

Walk(r) == WalkFrom(r, begin(r))

\* the live (ticket, value) pairs in slot order
Entries(r) == SelectSeq(r.data, Filled)

\* mutant: when the range runs out of tickets the entry inserted last is
\* taken back
RECURSIVE insert_range_takes_back(_, _, _, _)
insert_range_takes_back(r, vs, i, ids) ==
    IF i > Len(vs)
    THEN [ok |-> TRUE, r |-> r, ids |-> ids]
    ELSE LET res == emplace(r, vs[i])
         IN  IF res.ok
             THEN insert_range_takes_back(res.r, vs, i + 1,
                                          Append(ids, res.id))
             ELSE [ok |-> FALSE,
                   r |-> IF ids = <<>> THEN res.r
                         ELSE erase_ticket(res.r, ids[Len(ids)]).r,
                   ids |-> ids]

\* insert(first, last): emplace(*first) for each element; an overflow_error
\* of emplace leaves the loop.  ids are the tickets handed out so far
RECURSIVE insert_range(_, _, _, _)
insert_range(r, vs, i, ids) ==
    IF i > Len(vs)
    THEN [ok |-> TRUE, r |-> r, ids |-> ids]
    ELSE LET res == emplace(r, vs[i])
         IN  IF res.ok
             THEN insert_range(res.r, vs, i + 1, Append(ids, res.id))
             ELSE [ok |-> FALSE, r |-> res.r, ids |-> ids]

\* mutant: the first element of the range is left out
range_construct_skips_first(vs) == insert_range(EmptyMap, vs, 2, <<>>)

\* ticket_map(Iter first, Iter last) : ticket_map() { insert(first, last); }
range_construct(vs) == insert_range(EmptyMap, vs, 1, <<>>)

\* mutant: swap exchanges the overflow flag as well
swap_with_overflow(x, y) == <<y, x>>

\* swap(other): data, filledItems and nextId are exchanged
swap(x, y) ==
    <<[x EXCEPT !.data = y.data, !.cap = y.cap,
                !.filledItems = y.filledItems, !.nextId = y.nextId],
      [y EXCEPT !.data = x.data, !.cap = x.cap,
                !.filledItems = x.filledItems, !.nextId = x.nextId]>>

\* mutant: other.filledItems is not reset
move_construct_keeps_count(other) ==
    <<[overflow |-> FALSE, nextId |-> other.nextId, data |-> other.data,
       filledItems |-> other.filledItems, cap |-> other.cap],
      [other EXCEPT !.data = <<>>, !.cap = 0]>>

\* ticket_map(ticket_map &&other): the new object and other afterwards
move_construct(other) ==
    <<[overflow |-> FALSE, nextId |-> other.nextId, data |-> other.data,
       filledItems |-> other.filledItems, cap |-> other.cap],
      [other EXCEPT !.data = <<>>, !.cap = 0, !.filledItems = 0]>>

\* mutant: the copy starts with a fresh ticket counter
copy_construct_fresh_counter(other) ==
    [other EXCEPT !.cap = Len(other.data), !.nextId = 0, !.overflow = FALSE]

\* ticket_map(ticket_map const &other) = default: memberwise copy; the
\* copied vector allocates room for its elements
copy_construct(other) == [other EXCEPT !.cap = Len(other.data)]

\* operator=(ticket_map const &other): ticket_map temp(other); swap(temp)
copy_assign(x, other) == swap(x, copy_construct(other))[1]

\* operator=(ticket_map &&other): ticket_map temp(std::move(other));
\* swap(temp).  The assigned object and other afterwards
move_assign(x, other) ==
    LET mc == move_construct(other)
    IN  <<swap(x, mc[1])[1], mc[2]>>

\* ---------------------------------------------------------------- state
NoCall == [op |-> "none", c |-> 0, ok |-> TRUE, tickets |-> <<>>,
           vals |-> <<>>, pos |-> 0, arg |-> 0]

\* a call op on object c: whether it returned normally, the tickets it
\* returned, the values it was given, the position of the cursor it
\* returned and its other argument
Call(op, c, ok, tickets, vals, pos, arg) ==
    [op |-> op, c |-> c, ok |-> ok, tickets |-> tickets, vals |-> vals,
     pos |-> pos, arg |-> arg]

NoEntries == [t \in Tickets |-> None]

Range(s) == {s[i] : i \in 1 .. Len(s)}

MaxOf(S) == CHOOSE x \in S : \A y \in S : y <= x

\* iterator_impl(): no iterator is held
NoCursor == [map |-> 0, iter |-> 0, buf |-> 0, stale |-> FALSE]

Init ==
    /\ m = [c \in Maps |-> EmptyMap]
    /\ highest = [c \in Maps |-> -1]
    /\ taken = [c \in Maps |-> 0]
    /\ abs = [c \in Maps |-> NoEntries]
    /\ exhausted = [c \in Maps |-> FALSE]
    /\ last = NoCall
    /\ calls = 0
    /\ ticketType = [c \in Maps |-> "integral"]
    /\ held = NoCursor

\* --------------------------------------------------------------- actions
\* Ticket insert(Value v) / emplace(args...) with a value that constructs
Insert(c, v) ==
    LET res == emplace(m[c], v)
    IN  /\ m' = [m EXCEPT ![c] = res.r]
        /\ last' = Call("insert", c, res.ok,
                        IF res.ok THEN <<res.id>> ELSE <<>>, <<v>>, 0, 0)

\* emplace(args...) whose value constructor throws; arg is 1 when the
\* exception that leaves the call is the constructor's, 0 when it is
\* overflow_error
EmplaceThrows(c) ==
    LET res == emplace(m[c], None)
    IN  /\ m' = [m EXCEPT ![c] = res.r]
        /\ last' = Call("emplace_throws", c, FALSE, <<>>, <<>>, 0,
                        IF res.took THEN 1 ELSE 0)

\* template <typename Iter> iterator insert(Iter first, Iter last): the
\* returned cursor is data.begin() + index, index the slot count at entry
InsertRange(c, vs) ==
    LET res == insert_range(m[c], vs, 1, <<>>)
    IN  /\ m' = [m EXCEPT ![c] = res.r]
        /\ last' = Call("insert_range", c, res.ok, res.ids, vs,
                        IF res.ok THEN Len(m[c].data) + 1 ELSE 0, 0)

\* object c is replaced by a new object: ticket_map c(first, last).  An
\* overflow_error leaves the constructor and no new object exists
RangeConstruct(c, vs) ==
    LET res == range_construct(vs)
    IN  /\ m' = [m EXCEPT ![c] = IF res.ok THEN res.r ELSE @]
        /\ last' = Call("range_construct", c, res.ok,
                        IF res.ok THEN res.ids ELSE <<>>,
                        IF res.ok THEN vs ELSE <<>>, 0, 0)

\* iterator erase(const Ticket &ticket)
EraseTicket(c, t) ==
    LET res == erase_ticket(m[c], t)
    IN  /\ m' = [m EXCEPT ![c] = res.r]
        /\ last' = Call("erase", c, lookup(m[c], t) # End(m[c]), <<t>>,
                        <<>>, res.pos, 0)

\* the positions a caller can hold as a valid cursor: a filled slot or end()
Cursors(r) == {p \in 1 .. End(r) : p = End(r) \/ Filled(r.data[p])}

\* iterator erase(const_iterator pos)
EraseCursor(c, p) ==
    LET res == erase_cursor(m[c], p)
    IN  /\ m' = [m EXCEPT ![c] = res.r]
        /\ last' = Call("erase_cursor", c, p # End(m[c]),
                        IF p # End(m[c]) THEN <<m[c].data[p].ticket>>
                        ELSE <<>>,
                        <<>>, res.pos, p)

\* void clear()
Clear(c) ==
    /\ m' = [m EXCEPT ![c] = clear(m[c])]
    /\ last' = Call("clear", c, TRUE, <<>>, <<>>, 0, 0)

\* void reserve(std::size_t count)
Reserve(c, n) ==
    /\ m' = [m EXCEPT ![c] = reserve(m[c], n)]
    /\ last' = Call("reserve", c, TRUE, <<>>, <<>>, 0, n)

\* mutant: a lookup that fails compacts the vector
Index_compacts(c, t) ==
    LET res == index(m[c], t)
    IN  /\ m' = [m EXCEPT ![c] = IF res.ok THEN @ ELSE compact(@)]
        /\ last' = Call("index", c, res.ok, <<t>>,
                        IF res.ok THEN <<res.value>> ELSE <<>>, 0, 0)

\* Value &operator[](const Ticket &ticket)
Index(c, t) ==
    LET res == index(m[c], t)
    IN  /\ m' = m
        /\ last' = Call("index", c, res.ok, <<t>>,
                        IF res.ok THEN <<res.value>> ELSE <<>>, 0, 0)

\* a.swap(b), std::swap(a, b)
Swap(a, b) ==
    LET res == swap(m[a], m[b])
    IN  /\ m' = [m EXCEPT ![a] = res[1], ![b] = res[2]]
        /\ last' = Call("swap", a, TRUE, <<>>, <<>>, 0, b)

\* object dst is replaced by a new object: ticket_map dst(m[src])
CopyConstruct(dst, src) ==
    /\ m' = [m EXCEPT ![dst] = copy_construct(m[src])]
    /\ last' = Call("copy_construct", dst, TRUE, <<>>, <<>>, 0, src)

\* object dst is replaced by a new object: ticket_map dst(std::move(m[src]))
MoveConstruct(dst, src) ==
    LET res == move_construct(m[src])
    IN  /\ m' = [m EXCEPT ![dst] = res[1], ![src] = res[2]]
        /\ last' = Call("move_construct", dst, TRUE, <<>>, <<>>, 0, src)

\* dst = m[src]
CopyAssign(dst, src) ==
    /\ m' = [m EXCEPT ![dst] = copy_assign(m[dst], m[src])]
    /\ last' = Call("copy_assign", dst, TRUE, <<>>, <<>>, 0, src)

\* dst = std::move(m[src])
MoveAssign(dst, src) ==
    LET res == move_assign(m[dst], m[src])
    IN  /\ m' = [m EXCEPT ![dst] = res[1], ![src] = res[2]]
        /\ last' = Call("move_assign", dst, TRUE, <<>>, <<>>, 0, src)

\* ------------------------------------------------------------- observers
\* What a caller of one container can record from its calls and their
\* results alone: the greatest ticket returned so far, the number of
\* tickets used up, and the entries it has inserted and not removed.
Inserting == {"insert", "insert_range"}

\* the constructor calls that return tickets: the records start afresh
Constructing == {"range_construct"}

Erasing == {"erase", "erase_cursor"}

ObserveTickets ==
    highest' = CASE last'.op \in Inserting ->
                      [highest EXCEPT ![last'.c] =
                          MaxOf(Range(last'.tickets) \cup {@})]
                 [] last'.op \in Constructing /\ last'.ok ->
                      [highest EXCEPT ![last'.c] =
                          MaxOf(Range(last'.tickets) \cup {-1})]
                 [] OTHER -> highest

ObserveTaken ==
    taken' = CASE last'.op \in Inserting ->
                    [taken EXCEPT ![last'.c] = @ + Len(last'.tickets)]
               [] last'.op = "emplace_throws" ->
                    [taken EXCEPT ![last'.c] = @ + last'.arg]
               [] last'.op \in Constructing /\ last'.ok ->
                    [taken EXCEPT ![last'.c] = Len(last'.tickets)]
               [] OTHER -> taken

ObserveEntries ==
    abs' = CASE last'.op \in Inserting ->
                  [abs EXCEPT ![last'.c] =
                      [t \in Tickets |->
                          IF \E i \in 1 .. Len(last'.tickets) :
                                 last'.tickets[i] = t
                          THEN last'.vals[CHOOSE i \in 1 .. Len(last'.tickets) :
                                              last'.tickets[i] = t]
                          ELSE @[t]]]
             [] last'.op \in Constructing /\ last'.ok ->
                  [abs EXCEPT ![last'.c] =
                      [t \in Tickets |->
                          IF \E i \in 1 .. Len(last'.tickets) :
                                 last'.tickets[i] = t
                          THEN last'.vals[CHOOSE i \in 1 .. Len(last'.tickets) :
                                              last'.tickets[i] = t]
                          ELSE None]]
             [] last'.op \in Erasing ->
                  [abs EXCEPT ![last'.c] =
                      [t \in Tickets |->
                          IF t \in Range(last'.tickets) THEN None ELSE @[t]]]
             [] last'.op = "clear" -> [abs EXCEPT ![last'.c] = NoEntries]
             [] OTHER -> abs

\* an object that has returned the last ticket; a constructor call starts
\* a new object
ObserveExhausted ==
    exhausted' = CASE last'.op \in Inserting /\ MaxTicket \in Range(last'.tickets)
                        -> [exhausted EXCEPT ![last'.c] = TRUE]
                   [] last'.op \in {"copy_construct", "move_construct"}
                        -> [exhausted EXCEPT ![last'.c] = FALSE]
                   [] last'.op \in Constructing /\ last'.ok
                        -> [exhausted EXCEPT ![last'.c] =
                               MaxTicket \in Range(last'.tickets)]
                   [] OTHER -> exhausted

\* what the caller of one container records with each call
ObserveOne ==
    /\ ObserveTickets /\ ObserveTaken /\ ObserveEntries /\ ObserveExhausted
    /\ UNCHANGED <<calls, ticketType, held>>

\* the calls made on one container
Next ==
    \/ \E v \in Values : Insert(1, v) /\ ObserveOne
    \/ EmplaceThrows(1) /\ ObserveOne
    \/ \E vs \in Ranges : InsertRange(1, vs) /\ ObserveOne
    \/ \E t \in Tickets : EraseTicket(1, t) /\ ObserveOne
    \/ \E p \in Cursors(m[1]) : EraseCursor(1, p) /\ ObserveOne
    \/ Clear(1) /\ ObserveOne
    \/ \E n \in 0 .. MaxReserve : Reserve(1, n) /\ ObserveOne
    \/ \E t \in Tickets : Index(1, t) /\ ObserveOne
    \/ \E vs \in Ranges : RangeConstruct(1, vs) /\ ObserveOne

Spec == Init /\ [][Next]_vars

\* the calls of the two-container program: the values stored are those of
\* Values, the ranges hold the last value only, the reserve() arguments are
\* the least and the greatest
PairValues == Values

PairRanges == {[i \in 1 .. n |-> MaxVal] : n \in 0 .. MaxRange}

\* the program makes at most MaxCalls calls
Budget == calls < MaxCalls

ObservePair ==
    /\ calls' = calls + 1
    /\ ObserveExhausted
    /\ UNCHANGED <<highest, taken, abs, ticketType, held>>

NextPair ==
    \/ \E c \in Maps, v \in PairValues :
           Budget /\ Insert(c, v) /\ ObservePair
    \/ \E c \in Maps : Budget /\ EmplaceThrows(c) /\ ObservePair
    \/ \E c \in Maps, vs \in PairRanges :
           Budget /\ InsertRange(c, vs) /\ ObservePair
    \/ \E c \in Maps, t \in Tickets :
           Budget /\ EraseTicket(c, t) /\ ObservePair
    \/ \E c \in Maps : \E p \in Cursors(m[c]) :
           Budget /\ EraseCursor(c, p) /\ ObservePair
    \/ \E c \in Maps : Budget /\ Clear(c) /\ ObservePair
    \/ \E c \in Maps, n \in {0, MaxReserve} :
           Budget /\ Reserve(c, n) /\ ObservePair
    \/ Budget /\ Swap(1, 2) /\ ObservePair
    \/ \E c \in Maps : Budget /\ CopyConstruct(c, Other(c)) /\ ObservePair
    \/ \E c \in Maps : Budget /\ MoveConstruct(c, Other(c)) /\ ObservePair
    \/ \E c \in Maps : Budget /\ CopyAssign(c, Other(c)) /\ ObservePair
    \/ \E c \in Maps : Budget /\ MoveAssign(c, Other(c)) /\ ObservePair

SpecPair == Init /\ [][NextPair]_vars

\* the calls of the two-container program in which every value
\* construction succeeds: no emplace() ends in an exception of the value's
\* constructor
NextNoThrow ==
    \/ \E c \in Maps, v \in PairValues :
           Budget /\ Insert(c, v) /\ ObservePair
    \/ \E c \in Maps, vs \in PairRanges :
           Budget /\ InsertRange(c, vs) /\ ObservePair
    \/ \E c \in Maps, t \in Tickets :
           Budget /\ EraseTicket(c, t) /\ ObservePair
    \/ \E c \in Maps : \E p \in Cursors(m[c]) :
           Budget /\ EraseCursor(c, p) /\ ObservePair
    \/ \E c \in Maps : Budget /\ Clear(c) /\ ObservePair
    \/ \E c \in Maps, n \in {0, MaxReserve} :
           Budget /\ Reserve(c, n) /\ ObservePair
    \/ Budget /\ Swap(1, 2) /\ ObservePair
    \/ \E c \in Maps : Budget /\ CopyConstruct(c, Other(c)) /\ ObservePair
    \/ \E c \in Maps : Budget /\ MoveConstruct(c, Other(c)) /\ ObservePair
    \/ \E c \in Maps : Budget /\ CopyAssign(c, Other(c)) /\ ObservePair
    \/ \E c \in Maps : Budget /\ MoveAssign(c, Other(c)) /\ ObservePair

SpecNoThrow == Init /\ [][NextNoThrow]_vars

\* the programs that construct a ticket_map<int, Value> (object 1) and a
\* ticket_map<T, Value> with a custom ticket type T (object 2), insert into
\* them and read the entries back with operator[]
CustomTypes == TicketTypes \ {"integral"}

\* ticket_map<T, Value>(): nextId() is the default-constructed ticket
EmptyMapOf(T) == [EmptyMap EXCEPT !.nextId = Default(T)]

\* the k-fold successor of the default-constructed ticket
RECURSIVE SuccessorChain(_, _)
SuccessorChain(T, k) ==
    IF k = 0 THEN Default(T) ELSE PostIncrement(T, SuccessorChain(T, k - 1))

TicketsOfType(T) == {SuccessorChain(T, k) : k \in 0 .. MaxTicket + 1}

InitTypes ==
    /\ ticketType \in {[c \in Maps |-> IF c = 1 THEN "integral" ELSE T] :
                           T \in CustomTypes}
    /\ m = [c \in Maps |-> EmptyMapOf(ticketType[c])]
    /\ highest = [c \in Maps |-> -1]
    /\ taken = [c \in Maps |-> 0]
    /\ abs = [c \in Maps |-> NoEntries]
    /\ exhausted = [c \in Maps |-> FALSE]
    /\ last = NoCall
    /\ calls = 0
    /\ held = NoCursor

\* Ticket insert(Value v) on an object of either kind of ticket type
InsertTyped(c, v) ==
    LET res == IF ticketType[c] = "integral"
               THEN emplace(m[c], v)
               ELSE emplace_generic(ticketType[c], m[c], v)
    IN  /\ m' = [m EXCEPT ![c] = res.r]
        /\ last' = Call("insert", c, res.ok,
                        IF res.ok THEN <<res.id>> ELSE <<>>, <<v>>, 0, 0)

\* the int counter of MyTicket does not wrap within the runs modelled:
\* such an object receives MaxTicket + 1 inserts at most
Room(c) == ticketType[c] = "MyTicket" => taken[c] <= MaxTicket

ObserveTyped ==
    /\ ObserveTickets /\ ObserveTaken
    /\ UNCHANGED <<abs, exhausted, calls, ticketType, held>>

NextTypes ==
    \/ \E c \in Maps, v \in PairValues :
           Room(c) /\ InsertTyped(c, v) /\ ObserveTyped
    \/ \E c \in Maps : \E t \in TicketsOfType(ticketType[c]) :
           Index(c, t) /\ ObserveTyped

SpecTypes == InitTypes /\ [][NextTypes]_vars

\* ---------------------------------------------------- the held iterator
\* iterator begin(): {next_valid(data.begin()), this}
Begin(c) ==
    /\ held' = [map |-> c, iter |-> begin(m[c]), buf |-> c, stale |-> FALSE]
    /\ last' = Call("begin", c, TRUE, <<>>, <<>>, begin(m[c]), 0)

\* iterator find(const Ticket &ticket): {lookup(data, ticket), this}
Find(c, t) ==
    /\ held' = [map |-> c, iter |-> find(m[c], t), buf |-> c,
                stale |-> FALSE]
    /\ last' = Call("find", c, TRUE, <<t>>, <<>>, find(m[c], t), 0)

\* iter points at a slot of a living vector
InVector(h) == h.buf # 0 /\ h.iter <= Len(m[h.buf].data)

\* operator*() has defined behaviour: iter points at a slot of a living
\* vector and the optional of that slot holds a value
CanDereference(h) == InVector(h) /\ Filled(m[h.buf].data[h.iter])

\* operator++() has defined behaviour: iter points at a slot of the vector
\* of *map, so that ++iter and the comparison with map->data.end() do
CanIncrement(h) == InVector(h) /\ h.buf = h.map

\* the positions an iterator may hold after undefined behaviour
AnyPosition == 1 .. MaxTicket + 2

\* what is recorded with a use of the iterator: 0 when no invalidating
\* call was made since it was obtained, 1 when one was and the behaviour of
\* the use is defined, 2 when one was and it is undefined
StaleArg(h, defined) == IF ~h.stale THEN 0 ELSE IF defined THEN 1 ELSE 2

\* operator*(): value_type{iter->first, *iter->second}.  Where the
\* behaviour is undefined the call yields any entry or the program faults.
\* The caller never dereferences end() of an unchanged container.
Dereference ==
    /\ held.map # 0
    /\ held.stale \/ CanDereference(held)
    /\ IF CanDereference(held)
       THEN /\ last' = Call("dereference", held.map, TRUE,
                            <<m[held.buf].data[held.iter].ticket>>,
                            <<m[held.buf].data[held.iter].value>>,
                            held.iter, StaleArg(held, TRUE))
            /\ held' = held
       ELSE \/ \E t \in Tickets, v \in Values :
                  /\ last' = Call("dereference", held.map, TRUE, <<t>>,
                                  <<v>>, held.iter, StaleArg(held, FALSE))
                  /\ held' = held
            \/ /\ last' = Call("dereference", held.map, FALSE, <<>>, <<>>,
                               held.iter, StaleArg(held, FALSE))
               /\ held' = NoCursor

\* operator++(): iter = map->next_valid(++iter).  Where the behaviour is
\* undefined the iterator ends anywhere or the program faults.  The caller
\* never advances end() of an unchanged container.
Advance ==
    /\ held.map # 0
    /\ held.stale \/ CanIncrement(held)
    /\ IF CanIncrement(held)
       THEN LET it == next_valid(m[held.map], held.iter + 1)
            IN  /\ last' = Call("advance", held.map, TRUE, <<>>, <<>>, it,
                                StaleArg(held, TRUE))
                /\ held' = [held EXCEPT !.iter = it]
       ELSE \/ \E p \in AnyPosition :
                  /\ last' = Call("advance", held.map, TRUE, <<>>, <<>>, p,
                                  StaleArg(held, FALSE))
                  /\ held' = [held EXCEPT !.iter = p, !.buf = 0]
            \/ /\ last' = Call("advance", held.map, FALSE, <<>>, <<>>,
                               held.iter, StaleArg(held, FALSE))
               /\ held' = NoCursor

\* the calls documented to invalidate the iterators into the map, and swap
Invalidating == {"insert", "erase", "clear", "reserve"}

\* the call just made was such a call on the container of the iterator
Invalidated(h) ==
    \/ last'.op = "swap"
    \/ /\ last'.op \in Invalidating
       /\ last'.c = h.map
       /\ last'.op \in {"insert", "erase"} => last'.ok

\* the vector that holds the slot of the iterator after the call just made,
\* by the rules of std::vector: swap() hands the storage to the other
\* object (the end() iterator excepted); an emplace() with spare capacity
\* appends in place and keeps the iterators before end(), one without
\* builds a new vector or erases from the start; an erase that does not
\* compact leaves the vector alone; compact() keeps the iterators before
\* the new end(); clear() keeps none; reserve(count) with count > size()
\* builds a new vector and compacts otherwise
Storage(h) ==
    LET c == last'.c
        kept == IF h.iter <= Len(m'[c].data) THEN h.buf ELSE 0
    IN  CASE h.buf = 0 -> 0
          [] last'.op = "swap" ->
                 IF h.iter <= Len(m[h.buf].data) THEN Other(h.buf) ELSE 0
          [] h.buf # c -> h.buf
          [] last'.op = "insert" ->
                 IF m[c].overflow THEN h.buf
                 ELSE IF insert_capacity(m[c]) > 0 THEN kept ELSE 0
          [] last'.op = "erase" ->
                 IF Len(m'[c].data) = Len(m[c].data) THEN h.buf ELSE kept
          [] last'.op = "clear" -> 0
          [] last'.op = "reserve" ->
                 IF last'.arg > size(m[c]) THEN 0 ELSE kept
          [] OTHER -> h.buf

\* what a call on a container does to the iterator held
ObserveCursor ==
    /\ calls' = calls + 1
    /\ held' = IF held.map = 0 THEN held
               ELSE [held EXCEPT !.buf = Storage(held),
                                 !.stale = @ \/ Invalidated(held)]
    /\ UNCHANGED <<highest, taken, abs, exhausted, ticketType>>

\* an operation on the iterator changes no container
CursorOnly ==
    UNCHANGED <<m, highest, taken, abs, exhausted, calls, ticketType>>

\* the programs that hold an iterator into object 1 across calls on the
\* two objects and then use it
NextCursor ==
    \/ \E v \in Values : Budget /\ Insert(1, v) /\ ObserveCursor
    \/ Budget /\ Insert(2, MaxVal) /\ ObserveCursor
    \/ \E t \in Tickets : Budget /\ EraseTicket(1, t) /\ ObserveCursor
    \/ Budget /\ Clear(1) /\ ObserveCursor
    \/ \E n \in {0, MaxReserve} : Budget /\ Reserve(1, n) /\ ObserveCursor
    \/ Budget /\ Swap(1, 2) /\ ObserveCursor
    \/ Begin(1) /\ CursorOnly
    \/ \E t \in Tickets : Find(1, t) /\ CursorOnly
    \/ Dereference /\ CursorOnly
    \/ Advance /\ CursorOnly

SpecCursor == Init /\ [][NextCursor]_vars

\* ------------------------------------------------- the read-only calls
\* iterator end(): {data.end(), this}
CallEnd(c) ==
    /\ m' = m
    /\ last' = Call("end", c, TRUE, <<>>, <<>>, End(m[c]), 0)

\* std::size_t count(const Ticket &ticket): 0 when lookup() gives end()
Count(c, t) ==
    /\ m' = m
    /\ last' = Call("count", c, TRUE, <<t>>, <<>>, 0, count(m[c], t))

\* std::size_t size(): filledItems
Size(c) ==
    /\ m' = m
    /\ last' = Call("size", c, TRUE, <<>>, <<>>, 0, size(m[c]))

\* bool empty(): filledItems == 0
Empty(c) ==
    /\ m' = m
    /\ last' = Call("empty", c, TRUE, <<>>, <<>>, 0,
                    IF empty(m[c]) THEN 1 ELSE 0)

\* std::size_t insert_capacity(): data.capacity() - data.size()
InsertCapacity(c) ==
    /\ m' = m
    /\ last' = Call("insert_capacity", c, TRUE, <<>>, <<>>, 0,
                    insert_capacity(m[c]))

\* the calls that only read
Reading == {"find", "count", "index", "begin", "end", "size", "empty",
            "insert_capacity"}

\* a call that changes neither the caller's records nor the iterator held
ReadOnly ==
    UNCHANGED <<highest, taken, abs, exhausted, calls, ticketType, held>>

\* the programs that modify object 1 and read it in between
NextRead ==
    \/ \E v \in Values : Budget /\ Insert(1, v) /\ ObservePair
    \/ Budget /\ EmplaceThrows(1) /\ ObservePair
    \/ \E t \in Tickets : Budget /\ EraseTicket(1, t) /\ ObservePair
    \/ Budget /\ Clear(1) /\ ObservePair
    \/ \E n \in {0, MaxReserve} : Budget /\ Reserve(1, n) /\ ObservePair
    \/ \E t \in Tickets : Find(1, t) /\ CursorOnly
    \/ \E t \in Tickets : Count(1, t) /\ ReadOnly
    \/ \E t \in Tickets : Index(1, t) /\ ReadOnly
    \/ Begin(1) /\ CursorOnly
    \/ CallEnd(1) /\ ReadOnly
    \/ Size(1) /\ ReadOnly
    \/ Empty(1) /\ ReadOnly
    \/ InsertCapacity(1) /\ ReadOnly

SpecRead == Init /\ [][NextRead]_vars

\* ------------------------------------------------------------ properties
FilledAt(r) == {i \in 1 .. Len(r.data) : Filled(r.data[i])}

Ascending(q) == \A i \in 1 .. Len(q) - 1 : q[i] < q[i + 1]

TicketsOf(data) == [i \in 1 .. Len(data) |-> data[i].ticket]

\* C1: on one container, every ticket an insert returns is strictly greater
\* than every ticket the container returned before, whatever erase, clear
\* and reserve calls came in between (so no ticket is returned twice).
C1_MonotonicTickets ==
    [][last'.op \in Inserting =>
          /\ Ascending(last'.tickets)
          /\ \A i \in 1 .. Len(last'.tickets) :
                 last'.tickets[i] > highest[last'.c]]_vars

\* C1 witness: the last ticket is returned into a container from which the
\* earlier entries were removed and compacted away.
C1_Witness ==
    /\ last.op = "insert" /\ last.ok
    /\ last.tickets = <<MaxTicket>>
    /\ Len(m[1].data) = 1

\* C2: find(t) differs from end() exactly for the tickets that an insert
\* returned and that no erase or clear removed since; the slot found holds
\* ticket t and the value inserted under t.
C2_FindIffLive ==
    \A t \in Tickets :
        LET pos == find(m[1], t)
        IN  /\ (pos # End(m[1])) <=> (abs[1][t] # None)
            /\ pos # End(m[1]) =>
                   /\ m[1].data[pos].ticket = t
                   /\ m[1].data[pos].value = abs[1][t]

\* C2 witness: a ticket is found behind an empty slot while another ticket,
\* erased earlier, still has its slot.
C2_Witness ==
    \E t \in Tickets :
        /\ find(m[1], t) # End(m[1])
        /\ find(m[1], t) > 1
        /\ \E i \in 1 .. Len(m[1].data) :
               /\ ~Filled(m[1].data[i])
               /\ i < find(m[1], t)
               /\ find(m[1], m[1].data[i].ticket) = End(m[1])

\* C3: the walk from begin() with ++ to end() visits exactly the filled
\* slots, each once and size() of them, in strictly ascending ticket order,
\* and yields the entries the caller inserted and did not remove.
C3_WalkVisitsLive ==
    LET w == Walk(m[1])
    IN  /\ Len(w) = size(m[1])
        /\ Range(w) = FilledAt(m[1])
        /\ Ascending(w)
        /\ Ascending([i \in 1 .. Len(w) |-> m[1].data[w[i]].ticket])
        /\ \A i \in 1 .. Len(w) :
               abs[1][m[1].data[w[i]].ticket] = m[1].data[w[i]].value
        /\ \A t \in Tickets :
               abs[1][t] # None =>
                   \E i \in 1 .. Len(w) : m[1].data[w[i]].ticket = t

\* C3 witness: the walk skips an empty slot between two filled ones.
C3_Witness ==
    /\ Len(m[1].data) = 3
    /\ Filled(m[1].data[1]) /\ ~Filled(m[1].data[2]) /\ Filled(m[1].data[3])
    /\ Walk(m[1]) = <<1, 3>>

\* C4 as stated: after an erase that removed an entry, live count / total
\* slot count is at least 1/2 whenever slots remain.
C4_DensityAtLeastHalf ==
    (last.op \in Erasing /\ last.ok /\ Len(m[1].data) > 0) =>
        2 * m[1].filledItems >= Len(m[1].data)

\* C4 as amended: after an erase that removed an entry the live count is at
\* least the total slot count halved and rounded down, and when the
\* tombstoning leaves fewer live slots than that, the erase compacts and
\* ends with total slot count = live count.
C4_DensityAtLeastHalfRoundedDown ==
    [][(last'.op \in Erasing /\ last'.ok) =>
          LET r == m[last'.c]
              q == m'[last'.c]
          IN  /\ q.filledItems >= Len(q.data) \div 2
              /\ 2 * q.filledItems >= Len(q.data) - 1
              /\ (r.filledItems - 1 < Len(r.data) \div 2) =>
                     /\ Len(q.data) = q.filledItems
                     /\ Entries(q) = q.data]_vars

\* C4 witness: an erase leaves one live slot among three, below one half,
\* without compacting.
C4_Witness ==
    /\ last.op \in Erasing /\ last.ok
    /\ Len(m[1].data) = 3
    /\ m[1].filledItems = 1

\* C5: in every container filledItems, which is size(), is the number of
\* filled slots, and empty() holds exactly when there is none.
C5_CountMatchesFilled ==
    \A c \in Maps :
        /\ m[c].filledItems = Cardinality(FilledAt(m[c]))
        /\ size(m[c]) = Cardinality(FilledAt(m[c]))
        /\ empty(m[c]) <=> FilledAt(m[c]) = {}

\* C5 witness: a move construction has taken filled and empty slots out of
\* a container, which is left with no slot and size() 0.
C5_Witness ==
    /\ last.op = "move_construct"
    /\ m[last.arg].data = <<>> /\ size(m[last.arg]) = 0
    /\ size(m[last.c]) >= 1
    /\ Len(m[last.c].data) > size(m[last.c])

\* C6: in every container the tickets of the slots, filled or empty, are
\* strictly ascending, so that no ticket appears twice.
C6_SlotsStrictlyAscending ==
    \A c \in Maps : Ascending(TicketsOf(m[c].data))

\* the number of values of the ticket type from the default value up
NumTickets == MaxTicket + 1

\* C7: an insert succeeds exactly while fewer than NumTickets tickets were
\* used up, the k-th ticket used being k-1 (the last one is MaxTicket); the
\* insert after that fails and leaves the container as it was.
C7_ExactlyAllTicketsIssued ==
    [][last'.op = "insert" =>
          /\ last'.ok <=> taken[last'.c] < NumTickets
          /\ last'.ok => last'.tickets = <<taken[last'.c]>>
          /\ ~last'.ok => m' = m]_vars

\* C7 witness: an insert has failed on a container that holds NumTickets
\* entries, the last one under MaxTicket.
C7_Witness ==
    /\ last.op = "insert" /\ ~last.ok
    /\ size(m[1]) = NumTickets
    /\ m[1].data[NumTickets].ticket = MaxTicket

NextInsert(r) ==
    LET res == emplace(r, 1)
    IN  IF res.ok THEN <<"ticket", res.id>> ELSE <<"overflow_error", 0>>

\* C9: swap exchanges the slots, the live count and the whole state of the
\* ticket allocator, so that the next insert on either container does
\* what it would have done on the other before the swap.
C9_SwapExchangesEverything ==
    [][last'.op = "swap" =>
          \A c \in Maps :
              /\ m'[c].data = m[Other(c)].data
              /\ m'[c].filledItems = m[Other(c)].filledItems
              /\ NextInsert(m'[c]) = NextInsert(m[Other(c)])]_vars

\* C10: a copy-constructed container has the entries, the size, the next
\* ticket and the exhaustion of its source and leaves the source as it
\* was; afterwards a call on one container leaves the other unchanged.
C10_CopyIsIndependent ==
    [][/\ last'.op = "copy_construct" =>
             LET src == m[last'.arg]
                 new == m'[last'.c]
             IN  /\ Entries(new) = Entries(src)
                 /\ size(new) = size(src)
                 /\ new.nextId = src.nextId
                 /\ new.overflow = src.overflow
                 /\ NextInsert(new) = NextInsert(src)
                 /\ m'[last'.arg] = src
       /\ last'.op \in Inserting \cup Erasing
                       \cup {"emplace_throws", "clear", "reserve"} =>
             m'[Other(last'.c)] = m[Other(last'.c)]]_vars

\* C10 witness: a copy was made of an exhausted container that holds a
\* filled and an empty slot.
C10_Witness ==
    /\ last.op = "copy_construct"
    /\ m[last.arg].overflow
    /\ Entries(m[last.c]) = Entries(m[last.arg])
    /\ Entries(m[last.arg]) # <<>>
    /\ Len(m[last.arg].data) > size(m[last.arg])

\* C11: after the copy assignment dst = src, dst has the live entries of src
\* and its next insert does what the next insert on src does: the same
\* ticket, or overflow_error, whatever dst held before.
C11_CopyAssignEqualsSource ==
    [][last'.op = "copy_assign" =>
          LET src == m[last'.arg]
              dst == m'[last'.c]
          IN  /\ Entries(dst) = Entries(src)
              /\ size(dst) = size(src)
              /\ NextInsert(dst) = NextInsert(src)]_vars

Moving == {"move_construct", "move_assign"}

\* C12: a move construction or move assignment gives the destination the
\* live entries of the source, tickets unchanged, and leaves the source
\* with size() 0, empty() and begin() = end(); when the source had a next
\* ticket to issue, the destination's next insert returns that ticket.
C12_MoveTransfersEntriesAndTicket ==
    [][last'.op \in Moving =>
          LET src == m[last'.arg]
              dst == m'[last'.c]
              old == m'[last'.arg]
          IN  /\ Entries(dst) = Entries(src)
              /\ size(old) = 0 /\ empty(old) /\ begin(old) = End(old)
              /\ NextInsert(src)[1] = "ticket" =>
                     NextInsert(dst) = NextInsert(src)]_vars

\* what the insert of value v into r returns, and the live entries after it
InsertInto(r, v) ==
    LET res == emplace(r, v)
    IN  [ret |-> IF res.ok THEN <<"ticket", res.id>>
                 ELSE <<"overflow_error", 0>>,
         entries |-> Entries(res.r)]

\* C13: after a move, the first insert into the moved-from container and
\* the next insert into the destination return the same ticket, the one
\* the source was to issue next, and the moved-from container then holds
\* that one entry only.
C13_MovedFromKeepsCounter ==
    [][(last'.op \in Moving /\ NextInsert(m[last'.arg])[1] = "ticket") =>
          LET src == m[last'.arg]
              dst == m'[last'.c]
              old == m'[last'.arg]
          IN  /\ InsertInto(old, 1).ret = <<"ticket", src.nextId>>
              /\ InsertInto(dst, 1).ret = InsertInto(old, 1).ret
              /\ InsertInto(old, 1).entries = <<Slot(src.nextId, 1)>>]_vars

\* C14: operator[](t) returns the value inserted under t when t is live
\* and throws std::out_of_range when t was never issued, was erased or was
\* removed by clear; the call that throws changes nothing.
C14_IndexLiveOrOutOfRange ==
    [][last'.op = "index" =>
          LET t == last'.tickets[1]
          IN  /\ last'.ok <=> abs[last'.c][t] # None
              /\ last'.ok => last'.vals = <<abs[last'.c][t]>>
              /\ ~last'.ok => /\ last'.vals = <<>>
                              /\ m' = m /\ abs' = abs]_vars

\* C14 witness: operator[] has thrown for an erased ticket whose emptied
\* slot is still in the vector, next to a live entry.
C14_Witness ==
    /\ last.op = "index" /\ ~last.ok
    /\ \E i \in 1 .. Len(m[1].data) :
           /\ m[1].data[i].ticket = last.tickets[1]
           /\ ~Filled(m[1].data[i])
    /\ size(m[1]) > 0

\* C15: in every container and for every ticket t, count(t) is 1 when
\* find(t) differs from end() and 0 when it is end(), and nothing else.
C15_CountIsFindSucceeds ==
    \A c \in Maps : \A t \in Tickets :
        /\ count(m[c], t) \in {0, 1}
        /\ count(m[c], t) = 1 <=> find(m[c], t) # End(m[c])
        /\ count(m[c], t) = 0 <=> find(m[c], t) = End(m[c])

\* C15 witness: a container holds a live ticket, counted once, and the
\* emptied slot of an erased ticket, counted zero times.
C15_Witness ==
    \E c \in Maps : \E t, u \in Tickets :
        /\ count(m[c], t) = 1
        /\ count(m[c], u) = 0
        /\ \E i \in 1 .. Len(m[c].data) :
               m[c].data[i].ticket = u /\ ~Filled(m[c].data[i])

\* the entries in the order in which the walk from begin() yields them
WalkEntries(r) == [i \in 1 .. Len(Walk(r)) |-> r.data[Walk(r)[i]]]

\* C16: t = insert(v) followed by erase(t) leaves find(t) = end(),
\* count(t) = 0, size() as before the insert, and the other live entries
\* and the order of the walk as they were.  The first part follows the
\* insert by the erase of the ticket it returned; the second part is the
\* erase step that the program takes right after the insert.
C16_InsertEraseRoundTrip ==
    [][/\ (last'.op = "insert" /\ last'.ok) =>
             LET t == last'.tickets[1]
                 before == m[last'.c]
                 after == erase_entry(m'[last'.c],
                                      lookup(m'[last'.c], t)).r
             IN  /\ find(after, t) = End(after)
                 /\ count(after, t) = 0
                 /\ size(after) = size(before)
                 /\ Entries(after) = Entries(before)
                 /\ WalkEntries(after) = WalkEntries(before)
       /\ (/\ last.op = "insert" /\ last.ok
           /\ last'.op = "erase" /\ last'.c = last.c
           /\ last'.tickets = last.tickets) =>
             LET t == last.tickets[1]
                 r == m[last.c]
                 q == m'[last.c]
             IN  /\ last'.ok
                 /\ q = erase_entry(r, lookup(r, t)).r
                 /\ find(q, t) = End(q)
                 /\ count(q, t) = 0
                 /\ size(q) = size(r) - 1
                 /\ Entries(q) = SubSeq(Entries(r), 1, Len(Entries(r)) - 1)
                 /\ WalkEntries(q) = Entries(q)]_vars

\* C16 witness: the last ticket was inserted next to one live entry and
\* two emptied slots and then erased, which compacted the vector down to
\* the entry that was live before the insert.
C16_Witness ==
    /\ last.op = "erase" /\ last.ok
    /\ last.tickets = <<MaxTicket>>
    /\ highest[1] = MaxTicket
    /\ Len(m[1].data) = 1 /\ size(m[1]) = 1
    /\ m[1].cap > 1
    /\ find(m[1], MaxTicket) = End(m[1])

\* the position in r of the live entry with the least ticket greater than
\* t, or end() when there is none
NextLiveAfter(r, t) ==
    LET later == {i \in FilledAt(r) : r.data[i].ticket > t}
    IN  IF later = {} THEN End(r)
        ELSE CHOOSE i \in later :
                 \A j \in later : r.data[i].ticket <= r.data[j].ticket

\* C17: an erase that removes a live entry returns the position of the
\* live entry with the least ticket greater than the erased one, or end()
\* when there is none, whether or not the erase compacts; when the erased
\* entry was the first live one, the position returned is begin().
C17_EraseReturnsNextLive ==
    [][(last'.op \in Erasing /\ last'.ok) =>
          LET t == last'.tickets[1]
              r == m[last'.c]
              q == m'[last'.c]
          IN  /\ last'.pos = NextLiveAfter(q, t)
              /\ last'.pos # End(q) => Filled(q.data[last'.pos])
              /\ r.data[begin(r)].ticket = t => last'.pos = begin(q)]_vars

\* C17 witness: an erase has compacted the vector and returned the position
\* of a live entry, which is begin() of the compacted vector.
C17_Witness ==
    /\ last.op \in Erasing /\ last.ok
    /\ Len(m[1].data) = 1 /\ size(m[1]) = 1
    /\ last.pos = 1 /\ last.pos = begin(m[1])
    /\ m[1].data[1].ticket > last.tickets[1]

\* C18: insert(first, last) that returns with a non-empty range returns the
\* position of the entry inserted for *first, and the walk from it visits
\* the new entries, in order, up to end(); with an empty range it returns
\* end().
C18_RangeInsertReturnsFirstNew ==
    [][(last'.op = "insert_range" /\ last'.ok) =>
          LET q == m'[last'.c]
              pos == last'.pos
              new == [i \in 1 .. Len(last'.vals) |->
                         Slot(last'.tickets[i], last'.vals[i])]
          IN  IF last'.vals = <<>>
              THEN pos = End(q)
              ELSE /\ pos \in 1 .. Len(q.data)
                   /\ q.data[pos] = new[1]
                   /\ [i \in 1 .. Len(WalkFrom(q, pos)) |->
                          q.data[WalkFrom(q, pos)[i]]] = new]_vars

\* what the next insert into an object with ticket type T returns
NextInsertTyped(T, r) ==
    LET res == IF T = "integral" THEN emplace(r, 1)
               ELSE emplace_generic(T, r, 1)
    IN  IF res.ok THEN <<"ticket", res.id>> ELSE <<"overflow_error", 0>>

\* C19: the first ticket a new container returns is the default-constructed
\* ticket and the ticket returned after k others is its k-fold successor:
\* k for an integral type, 100 + 10 k for MyTicket.  The ticket is the
\* value the counter had before the insert, and operator[] with it gives
\* the value inserted.
C19_TicketsFollowSuccessorChain ==
    [][(last'.op = "insert" /\ last'.ok) =>
          LET c == last'.c
              T == ticketType[c]
              k == taken[c]
              id == last'.tickets[1]
          IN  /\ id = SuccessorChain(T, k)
              /\ k = 0 => id = Default(T)
              /\ id = m[c].nextId
              /\ T = "integral" => id = k
              /\ T = "MyTicket" => id = MyTicketDefault + MyTicketStep * k
              /\ index(m'[c], id) = [ok |-> TRUE, value |-> last'.vals[1]]
              /\ size(m'[c]) = k + 1]_vars

\* C19 witness: the second insert into a ticket_map<MyTicket, Value> has
\* returned 110 and the entry is read back.
C19_Witness ==
    /\ last.op = "insert" /\ last.ok /\ last.c = 2
    /\ ticketType[2] = "MyTicket"
    /\ last.tickets = <<MyTicketDefault + MyTicketStep>>
    /\ index(m[2], MyTicketDefault).ok
    /\ index(m[2], MyTicketDefault + MyTicketStep).value = last.vals[1]

\* C20: a container whose ticket type wraps after NumTickets values (the
\* generic overflow check) and one with an integral ticket type of as many
\* values behave alike: the insert after k others returns ticket k while
\* k < NumTickets, every insert after that fails with overflow_error and
\* leaves the container, holding NumTickets entries, as it was; after
\* equally many inserts the two hold the same entries under the same
\* tickets and their next insert has the same result.
C20_GenericMatchesIntegral ==
    [][/\ (last'.op = "insert"
           /\ ticketType[last'.c] \in {"integral", "SmallTicket"}) =>
             LET c == last'.c
                 k == taken[c]
             IN  /\ last'.ok <=> k < NumTickets
                 /\ last'.ok => /\ last'.tickets = <<k>>
                                /\ size(m'[c]) = k + 1
                 /\ ~last'.ok => /\ m'[c] = m[c]
                                 /\ size(m'[c]) = NumTickets
       /\ (ticketType[2] = "SmallTicket" /\ taken'[1] = taken'[2]) =>
             /\ TicketsOf(m'[1].data) = TicketsOf(m'[2].data)
             /\ size(m'[1]) = size(m'[2])
             /\ NextInsertTyped(ticketType[1], m'[1])
                    = NextInsertTyped(ticketType[2], m'[2])]_vars

\* C20 witness: both containers have returned NumTickets tickets and the
\* next insert into the one with the wrapping ticket type, whose counter is
\* back at its first value, has failed.
C20_Witness ==
    /\ ticketType[2] = "SmallTicket"
    /\ last.op = "insert" /\ ~last.ok /\ last.c = 2
    /\ size(m[1]) = NumTickets /\ size(m[2]) = NumTickets
    /\ m[1].overflow /\ m[2].overflow
    /\ m[1].nextId = MaxTicket /\ m[2].nextId = 0

\* C21: a container constructed from a sequence of k values has size() k,
\* holds the j-th value under the j-th ticket of the chain from the default
\* ticket (j - 1 for an integral type), yields the values in input order on
\* a walk, and returns the (k+1)-th ticket, k, from its next insert; when
\* the k values used up every ticket of the type, that insert fails with
\* overflow_error.
C21_ConstructFromRange ==
    [][(last'.op = "range_construct" /\ last'.ok) =>
          LET q == m'[last'.c]
              k == Len(last'.vals)
          IN  /\ size(q) = k /\ (empty(q) <=> k = 0)
              /\ last'.tickets = [j \in 1 .. k |->
                                     SuccessorChain("integral", j - 1)]
              /\ last'.tickets = [j \in 1 .. k |-> j - 1]
              /\ WalkEntries(q) = [j \in 1 .. k |->
                                      Slot(j - 1, last'.vals[j])]
              /\ \A j \in 1 .. k :
                     index(q, j - 1) = [ok |-> TRUE, value |-> last'.vals[j]]
              /\ NextInsert(q) = IF k < NumTickets THEN <<"ticket", k>>
                                 ELSE <<"overflow_error", 0>>]_vars

\* C21 witness: a container was constructed from three values, not all the
\* same, and its next insert returns ticket 3.
C21_Witness ==
    /\ last.op = "range_construct" /\ last.ok
    /\ Len(last.vals) = 3 /\ last.vals[1] # last.vals[2]
    /\ size(m[1]) = 3 /\ m[1].nextId = 3
    /\ NextInsert(m[1]) = <<"ticket", 3>>

\* C22: clear() leaves size() 0, empty(), begin() = end() and find(t) =
\* end() for every ticket t, and does not touch the ticket allocator: the
\* next insert returns what it would have returned without the clear, and
\* an exhausted container stays exhausted.
C22_ClearKeepsAllocator ==
    [][last'.op = "clear" =>
          LET r == m[last'.c]
              q == m'[last'.c]
          IN  /\ size(q) = 0 /\ empty(q) /\ begin(q) = End(q)
              /\ \A t \in Tickets : find(q, t) = End(q) /\ count(q, t) = 0
              /\ q.nextId = r.nextId /\ q.overflow = r.overflow
              /\ NextInsert(q) = NextInsert(r)
              /\ exhausted[last'.c] => NextInsert(q)[1] = "overflow_error"]_vars

\* C22 witness: an exhausted container that had allocated room for its
\* slots was cleared.
C22_Witness ==
    /\ last.op = "clear"
    /\ exhausted[1] /\ m[1].overflow
    /\ m[1].cap >= NumTickets
    /\ m[1].data = <<>>

\* C23: after reserve(n) the container has room for n items in all without
\* reallocating: size() + insert_capacity() >= n, so that an empty
\* container has insert_capacity() >= n.
C23_ReserveMakesRoom ==
    [][last'.op = "reserve" =>
          LET q == m'[last'.c]
          IN  /\ size(q) + insert_capacity(q) >= last'.arg
              /\ empty(q) => insert_capacity(q) >= last'.arg
              /\ insert_capacity(q) >= 0]_vars

\* C23 witness: reserve(n) was called with n above size() on a container
\* in which two of the NumTickets entries inserted are still live.
C23_Witness ==
    /\ last.op = "reserve" /\ last.arg = NumTickets
    /\ size(m[1]) = 2
    /\ insert_capacity(m[1]) = NumTickets - 2
    /\ taken[1] = NumTickets

\* C24 as stated: reserve(n) with n not greater than the capacity of the
\* vector leaves the capacity as it was and removes the emptied slots only.
C24_ReserveWithinCapacityKeepsIt ==
    [][(last'.op = "reserve" /\ last'.arg <= m[last'.c].cap) =>
          /\ m'[last'.c].cap = m[last'.c].cap
          /\ m'[last'.c].data = Entries(m[last'.c])]_vars

\* C24 as amended: reserve(n) with n not greater than size() leaves the
\* capacity as it was and removes the emptied slots only; reserve(n) with
\* n greater than size() moves the live entries into a new vector with
\* room for at least n slots, whatever the capacity was before.  In both
\* cases the live entries, their order, size() and the ticket allocator
\* are unchanged.
C24_ReserveWithinSizeCompactsOnly ==
    [][last'.op = "reserve" =>
          LET r == m[last'.c]
              q == m'[last'.c]
          IN  /\ last'.arg <= size(r) => q.cap = r.cap
              /\ last'.arg > size(r) => q.cap >= last'.arg
              /\ q.data = Entries(r)
              /\ size(q) = size(r)
              /\ q.nextId = r.nextId /\ q.overflow = r.overflow]_vars

\* C24 witness: reserve(n) with n not above size() has left a capacity
\* greater than n and no emptied slot.
C24_Witness ==
    /\ last.op = "reserve"
    /\ last.arg > 0 /\ last.arg <= size(m[1])
    /\ m[1].cap > size(m[1])
    /\ Len(m[1].data) = size(m[1])
    /\ taken[1] > size(m[1])

\* the number of slots the last call appended
Appended(call) ==
    CASE call.op \in Inserting -> Len(call.tickets)
      [] call.op = "emplace_throws" -> call.arg
      [] OTHER -> 0

C26_EraseAbsentChangesNothing ==
    [][last'.op = "erase" =>
          LET t == last'.tickets[1]
              r == m[last'.c]
          IN  /\ last'.ok <=> abs[last'.c][t] # None
              /\ ~last'.ok => /\ m' = m
                              /\ last'.pos = End(r)
                              /\ size(m'[last'.c]) = size(r)
                              /\ abs' = abs]_vars

\* C26 witness: erase(t) was called for a ticket erased before, whose
\* emptied slot is still in the vector.
C26_Witness ==
    /\ last.op = "erase" /\ ~last.ok
    /\ last.pos = End(m[1])
    /\ \E i \in 1 .. Len(m[1].data) :
           /\ m[1].data[i].ticket = last.tickets[1]
           /\ ~Filled(m[1].data[i])

\* C27: erase(find(t)) and erase(t) leave the same container and return
\* the same cursor, for live tickets and for absent ones, where find(t) is
\* end().  Stated for each erase through a cursor against the erase of the
\* ticket under the cursor, and for each erase through a ticket against the
\* erase of the cursor find(t) gives.
C27_EraseCursorIsEraseTicket ==
    [][/\ last'.op = "erase_cursor" =>
             LET r == m[last'.c]
                 p == last'.arg
             IN  /\ p # End(r) =>
                        /\ find(r, r.data[p].ticket) = p
                        /\ erase_ticket(r, r.data[p].ticket)
                               = [r |-> m'[last'.c], pos |-> last'.pos]
                 /\ p = End(r) =>
                        \A t \in Tickets :
                            find(r, t) = End(r) =>
                                erase_ticket(r, t)
                                    = [r |-> m'[last'.c], pos |-> last'.pos]
       /\ last'.op = "erase" =>
             erase_cursor(m[last'.c], find(m[last'.c], last'.tickets[1]))
                 = [r |-> m'[last'.c], pos |-> last'.pos]]_vars

\* C27 witness: an erase through a cursor to the second of three live
\* entries has emptied its slot and returned the cursor to the third.
C27_Witness ==
    /\ last.op = "erase_cursor" /\ last.ok
    /\ last.arg = 2 /\ last.pos = 3
    /\ Len(m[1].data) = 3 /\ size(m[1]) = 2
    /\ ~Filled(m[1].data[2])

\* C28: begin() is the position of the live entry with the least ticket,
\* and begin() = end() exactly when size() = 0, also when the vector still
\* holds emptied slots.
C28_BeginIsFirstLive ==
    LET r == m[1]
        b == begin(r)
    IN  /\ (b = End(r)) <=> (size(r) = 0)
        /\ (b = End(r)) <=> (\A t \in Tickets : abs[1][t] = None)
        /\ b # End(r) =>
               /\ Filled(r.data[b])
               /\ \A i \in FilledAt(r) : r.data[b].ticket <= r.data[i].ticket
               /\ abs[1][r.data[b].ticket] = r.data[b].value
               /\ \A t \in Tickets :
                      abs[1][t] # None => r.data[b].ticket <= t

\* C28 witness: the vector holds two or more slots, none of them with a
\* value, and begin() is end().
C28_Witness ==
    /\ Len(m[1].data) >= 2
    /\ size(m[1]) = 0
    /\ begin(m[1]) = End(m[1])
    /\ \A i \in 1 .. Len(m[1].data) : ~Filled(m[1].data[i])


\* C29: the use of an iterator obtained before an insertion, erase,
\* reserve, clear or swap is detected: a dereference or an increment of
\* such an iterator ends in a failure and yields no entry and no position.
\* It is stated for the uses whose behaviour the language defines, where
\* what the code does is one outcome.
C29_StaleCursorUseDetected ==
    (last.op \in {"dereference", "advance"} /\ last.arg = 1) => ~last.ok


\* the slots are exactly the entries of the record a, each once, in
\* ascending ticket order, and every slot holds the recorded value
HoldsExactly(data, a) ==
    /\ Len(data) = Cardinality({t \in Tickets : a[t] # None})
    /\ \A i \in 1 .. Len(data) :
           /\ data[i].value # None
           /\ data[i].value = a[data[i].ticket]
    /\ Ascending(TicketsOf(data))

\* C30: a compaction removes the slots without a value and nothing else.
\* After an erase that compacts and after every reserve the slot count is
\* the live count, the slots are the caller's entries in ticket order, and
\* size() and the result of the next insert are what they were (size()
\* less the erased entry).  An insert that finds no spare capacity leaves
\* the live entries, in order, followed by the one new slot, which carries
\* the ticket that was next.
C30_CompactionDropsOnlyEmptied ==
    [][LET r == m[1]
           q == m'[1]
           Kept(s) == s.ticket # last'.tickets[1]
       IN  /\ (last'.op \in Erasing /\ Len(q.data) < Len(r.data)) =>
                  /\ Len(q.data) = size(q)
                  /\ size(q) = size(r) - 1
                  /\ HoldsExactly(q.data, abs'[1])
                  /\ q.data = SelectSeq(Entries(r), Kept)
                  /\ NextInsert(q) = NextInsert(r)
           /\ last'.op = "reserve" =>
                  /\ Len(q.data) = size(q)
                  /\ size(q) = size(r)
                  /\ HoldsExactly(q.data, abs[1])
                  /\ q.data = Entries(r)
                  /\ NextInsert(q) = NextInsert(r)
           /\ (/\ last'.op \in {"insert", "emplace_throws"}
               /\ ~r.overflow
               /\ insert_capacity(r) = 0) =>
                  /\ Len(q.data) = size(r) + 1
                  /\ size(q) = size(r) + (IF last'.ok THEN 1 ELSE 0)
                  /\ HoldsExactly(SubSeq(q.data, 1, size(r)), abs[1])
                  /\ SubSeq(q.data, 1, size(r)) = Entries(r)
                  /\ q.data[Len(q.data)].ticket = taken[1]]_vars

\* C30 witness: an erase has compacted a vector of at least four slots down
\* to the one live entry left, which was not in the first slot.
C30_Witness ==
    /\ last.op \in Erasing /\ last.ok
    /\ Len(m[1].data) = 1 /\ size(m[1]) = 1
    /\ m[1].data[1].ticket >= 1
    /\ m[1].data[1].value = abs[1][m[1].data[1].ticket]


\* C31: between the calls of a program whose value constructions all
\* succeed, every container has filledItems >= total slot count halved and
\* rounded down: needs_compaction() is false, and the slots without a value
\* outnumber those with one by one at most.
C31_NoCompactionPending ==
    \A c \in Maps :
        LET live == Cardinality(FilledAt(m[c]))
            total == Len(m[c].data)
        IN  /\ m[c].filledItems >= total \div 2
            /\ ~needs_compaction(m[c])
            /\ total - live <= live + 1

\* C31 witness: erases have left a container with one live slot and two
\* without a value, the most the threshold lets stand.
C31_Witness ==
    \E c \in Maps :
        /\ last.op \in Erasing /\ last.c = c /\ last.ok
        /\ Cardinality(FilledAt(m[c])) = 1
        /\ Len(m[c].data) - Cardinality(FilledAt(m[c])) = 2


\* C32: a move construction or move assignment from a container that has
\* handed out its last ticket leaves a destination that rejects the next
\* insert with overflow_error, so that it returns no ticket that one of the
\* slots it received carries.
C32_ExhaustionTravelsWithMove ==
    [][(last'.op \in Moving /\ m[last'.arg].overflow) =>
          LET dst == m'[last'.c]
              res == emplace(dst, 1)
          IN  /\ NextInsert(dst) = <<"overflow_error", 0>>
              /\ ~res.took
              /\ \A i \in 1 .. Len(dst.data) :
                     res.ok => dst.data[i].ticket # res.id]_vars


C34_RangeInsertStopsPartWay ==
    [][(last'.op = "insert_range" /\ ~last'.ok) =>
          LET r == m[last'.c]
              q == m'[last'.c]
              ids == last'.tickets
              k == Len(ids)
              new == [i \in 1 .. k |-> Slot(ids[i], last'.vals[i])]
          IN  /\ k < Len(last'.vals)
              /\ \A i \in 1 .. k : ids[i] = taken[last'.c] + i - 1
              /\ size(q) = size(r) + k
              /\ \A i \in 1 .. k :
                     /\ find(q, ids[i]) # End(q)
                     /\ q.data[find(q, ids[i])].value = last'.vals[i]
              /\ Entries(q) = Entries(r) \o new
              /\ NextInsert(q) = <<"overflow_error", 0>>]_vars

\* C34 witness: a range of four values met a container with two tickets
\* left: two values went in and the call ended in overflow_error.
C34_Witness ==
    /\ last.op = "insert_range" /\ ~last.ok
    /\ Len(last.vals) = 4
    /\ last.tickets = <<MaxTicket - 1, MaxTicket>>
    /\ find(m[1], MaxTicket - 1) # End(m[1])
    /\ find(m[1], MaxTicket) # End(m[1])


\* C35: an emplace() whose value constructor throws after the ticket was
\* taken uses the ticket up: the next insert returns the following ticket
\* (overflow_error after the last), a slot without a value carrying the
\* ticket is the last of the vector, size() and the live entries are as
\* before, filledItems is the number of slots with a value, and find() and
\* count() do not find the ticket.
C35_ThrowingConstructorUsesTicket ==
    [][(last'.op = "emplace_throws" /\ last'.arg = 1) =>
          LET r == m[last'.c]
              q == m'[last'.c]
              t == taken[last'.c]
          IN  /\ NextInsert(r) = <<"ticket", t>>
              /\ NextInsert(q) = IF t < MaxTicket THEN <<"ticket", t + 1>>
                                 ELSE <<"overflow_error", 0>>
              /\ q.data[Len(q.data)] = Slot(t, None)
              /\ size(q) = size(r)
              /\ Entries(q) = Entries(r)
              /\ q.filledItems = Cardinality(FilledAt(q))
              /\ find(q, t) = End(q)
              /\ count(q, t) = 0]_vars

\* C35 witness: the constructor threw in an emplace() into a container with
\* a live entry; the slot of the ticket it took is the last and is empty.
C35_Witness ==
    /\ last.op = "emplace_throws" /\ last.arg = 1
    /\ size(m[1]) >= 1
    /\ Len(m[1].data) >= 2
    /\ m[1].data[Len(m[1].data)] = Slot(taken[1] - 1, None)


\* C36: find, count, operator[] (returning or throwing), begin, end, size,
\* empty and insert_capacity leave the slots, filledItems, nextId, overflow
\* and the capacity of the container as they were; none of them compacts,
\* also when needs_compaction() holds.
C36_ReadsChangeNothing ==
    [][last'.op \in Reading =>
          /\ m' = m
          /\ Len(m'[last'.c].data) = Len(m[last'.c].data)
          /\ needs_compaction(m'[last'.c]) = needs_compaction(m[last'.c])]_vars

\* C36 witness: operator[] has thrown out_of_range on a container with two
\* slots and no live entry, where needs_compaction() holds, and the two
\* slots are still there.
C36_Witness ==
    /\ last.op = "index" /\ ~last.ok
    /\ needs_compaction(m[1])
    /\ Len(m[1].data) = 2 /\ size(m[1]) = 0
====
